---- MODULE Spec2Model ----
(***************************************************************************)
(* fastify-statistics: a Fastify plugin that registers three GET routes    *)
(* (uptime, metrics, /stats) reporting process uptime, memory usage and    *)
(* event-loop utilization, and owns one event-loop-delay histogram that is *)
(* enabled at registration and disabled by an onClose hook.                *)
(*                                                                         *)
(* Strings the plugin renders (memory fields, percentage, timestamp) are   *)
(* sequences of one-character strings, so that suffixes and numeric        *)
(* prefixes can be inspected.  JavaScript numbers are records              *)
(* [kind, n, d]: kind "number" is the finite value n/d (d > 0); the other  *)
(* kinds are NaN, the two infinities and the values that are not numbers.  *)
(***************************************************************************)
EXTENDS Integers, Sequences, FiniteSets, TLC

(***************************************************************************)
(* Bounds of the model.                                                    *)
(***************************************************************************)
\* The event loop accumulates at most MaxTicks units of idle plus active time.
MaxTicks == 2

(***************************************************************************)
(* JavaScript values.                                                      *)
(***************************************************************************)
Null == [null |-> TRUE]

Num(n, d) == [kind |-> "number", n |-> n, d |-> d]

NaN == [kind |-> "NaN", n |-> 0, d |-> 1]

PosInfinity == [kind |-> "Infinity", n |-> 1, d |-> 1]

NegInfinity == [kind |-> "-Infinity", n |-> -1, d |-> 1]

\* a string where a number was expected
NotANumber == [kind |-> "string", n |-> 0, d |-> 1]

Undefined == [kind |-> "undefined", n |-> 0, d |-> 1]

\* typeof value
TypeOf(value) ==
  IF value.kind \in {"number", "NaN", "Infinity", "-Infinity"} THEN "number"
  ELSE value.kind

NumberIsNaN(value) == value.kind = "NaN"

NumberIsFinite(value) == value.kind = "number"

\* a / b on two integers held as JavaScript numbers
JsDivide(a, b) ==
  IF b = 0
  THEN IF a = 0 THEN NaN ELSE IF a > 0 THEN PosInfinity ELSE NegInfinity
  ELSE IF b > 0 THEN Num(a, b) ELSE Num(-a, -b)

\* x <= y on finite numbers
NumLeq(x, y) == x.n * y.d <= y.n * x.d

Abs(n) == IF n < 0 THEN -n ELSE n

(***************************************************************************)
(* Number formatting and parsing.                                          *)
(***************************************************************************)
Digits == <<"0", "1", "2", "3", "4", "5", "6", "7", "8", "9">>

DigitChar(k) == Digits[k + 1]

RECURSIVE NatToChars(_)
NatToChars(n) ==
  IF n < 10 THEN <<DigitChar(n)>>
  ELSE NatToChars(n \div 10) \o <<DigitChar(n % 10)>>

\* Number.prototype.toString() of an integer
IntToString(n) == IF n < 0 THEN <<"-">> \o NatToChars(-n) ELSE NatToChars(n)

\* the nearest integer to (a / d) * 100 for a >= 0, ties to the larger
Hundredths(a, d) == (a \div d) * 100 + ((a % d) * 200 + d) \div (2 * d)

\* Number.prototype.toFixed(2) of the finite number n / d
ToFixed2(n, d) ==
  LET h == Hundredths(Abs(n), d)
  IN  (IF n < 0 THEN <<"-">> ELSE <<>>)
        \o NatToChars(h \div 100)
        \o <<".", DigitChar((h % 100) \div 10), DigitChar(h % 10)>>

\* (value * 100).toFixed(2) of any JavaScript number
TimesHundredToFixed2(value) ==
  CASE value.kind = "number"    -> ToFixed2(value.n * 100, value.d)
    [] value.kind = "Infinity"  -> <<"I", "n", "f", "i", "n", "i", "t", "y">>
    [] value.kind = "-Infinity" -> <<"-", "I", "n", "f", "i", "n", "i", "t", "y">>
    [] OTHER                    -> <<"N", "a", "N">>

EndsWith(s, suffix) ==
  /\ Len(s) >= Len(suffix)
  /\ SubSeq(s, Len(s) - Len(suffix) + 1, Len(s)) = suffix

DropSuffix(s, suffix) == SubSeq(s, 1, Len(s) - Len(suffix))

IsDigit(c) == \E k \in 0..9 : Digits[k + 1] = c

DigitValue(c) == CHOOSE k \in 0..9 : Digits[k + 1] = c

\* the digits of s read as a base-10 natural number
RECURSIVE DigitsValue(_)
DigitsValue(s) ==
  IF s = <<>> THEN 0
  ELSE DigitsValue(SubSeq(s, 1, Len(s) - 1)) * 10 + DigitValue(s[Len(s)])

\* s is an optional sign, digits, and optionally a point and more digits
IsDecimal(s) ==
  LET t == IF s # <<>> /\ s[1] = "-" THEN Tail(s) ELSE s
      points == {i \in 1..Len(t) : t[i] = "."}
  IN  /\ t # <<>>
      /\ \A i \in 1..Len(t) : IsDigit(t[i]) \/ t[i] = "."
      /\ Cardinality(points) <= 1
      /\ \A i \in points : i > 1 /\ i < Len(t)

RECURSIVE Pow10(_)
Pow10(k) == IF k = 0 THEN 1 ELSE 10 * Pow10(k - 1)

\* parseFloat(s) of a decimal s, as the number n / d
ParseFloat(s) ==
  LET neg == s[1] = "-"
      t == IF neg THEN Tail(s) ELSE s
      points == {i \in 1..Len(t) : t[i] = "."}
      p == IF points = {} THEN Len(t) + 1 ELSE CHOOSE i \in points : TRUE
      whole == SubSeq(t, 1, p - 1)
      frac == SubSeq(t, p + 1, Len(t))
      mag == DigitsValue(whole) * Pow10(Len(frac)) + DigitsValue(frac)
  IN  Num(IF neg THEN -mag ELSE mag, Pow10(Len(frac)))

(***************************************************************************)
(* Date.prototype.toISOString.  A time value is [day, ms]: the days since  *)
(* the epoch and the milliseconds within that day.                         *)
(***************************************************************************)
Pad(n, width) ==
  LET s == NatToChars(n)
  IN  [i \in 1..(width - Len(s)) |-> "0"] \o s

\* the civil date [y, m, d] of a day number
CivilFromDays(day) ==
  LET z == day + 719468
      era == z \div 146097
      doe == z - era * 146097
      yoe == (doe - doe \div 1460 + doe \div 36524 - doe \div 146096) \div 365
      doy == doe - (365 * yoe + yoe \div 4 - yoe \div 100)
      mp == (5 * doy + 2) \div 153
      d == doy - (153 * mp + 2) \div 5 + 1
      m == IF mp < 10 THEN mp + 3 ELSE mp - 9
      y == yoe + era * 400 + (IF m <= 2 THEN 1 ELSE 0)
  IN  [y |-> y, m |-> m, d |-> d]

ToISOString(t) ==
  LET c == CivilFromDays(t.day)
      hh == t.ms \div 3600000
      mm == (t.ms % 3600000) \div 60000
      ss == (t.ms % 60000) \div 1000
  IN  Pad(c.y, 4) \o <<"-">> \o Pad(c.m, 2) \o <<"-">> \o Pad(c.d, 2)
        \o <<"T">> \o Pad(hh, 2) \o <<":">> \o Pad(mm, 2) \o <<":">>
        \o Pad(ss, 2) \o <<".">> \o Pad(t.ms % 1000, 3) \o <<"Z">>

(***************************************************************************)
(* Inputs: what the caller passes and what the runtime reports.            *)
(***************************************************************************)
Defaults == [metricsInMB |-> FALSE, uptimeRoute |-> "/uptime", metricsRoute |-> "/metrics"]

MetricsInMBOptions == {TRUE, FALSE}

UptimeRouteOptions == {"/api/uptime", "/stats"}

MetricsRouteOptions == {"/api/metrics", "/api/uptime"}

\* the option objects a caller registers the plugin with: any subset of keys
Options ==
  LET Key(k, values) == {<<>>} \cup {k :> v : v \in values}
  IN  {mb @@ up @@ me : mb \in Key("metricsInMB", MetricsInMBOptions),
                        up \in Key("uptimeRoute", UptimeRouteOptions),
                        me \in Key("metricsRoute", MetricsRouteOptions)}

Methods == {"GET", "POST", "PUT", "DELETE"}

Paths == {"/uptime", "/metrics", "/stats", "/api/uptime", "/api/metrics"}

\* moments of the process: what process.memoryUsage(), new Date() and
\* process.uptime() (in milliseconds) report at each
Snapshots ==
  { [mem |-> [rss |-> 47185920, heapTotal |-> 6291456, heapUsed |-> 4718592, external |-> 1572864],
     now |-> [day |-> 20761, ms |-> 3723004], uptime |-> 61999],
    [mem |-> [rss |-> 1572864, heapTotal |-> 5243, heapUsed |-> 5242, external |-> 0],
     now |-> [day |-> 19782, ms |-> 86399999], uptime |-> 0] }

\* what a replaced performance.eventLoopUtilization reports as utilization
PatchedReadings ==
  {Num(1, 8), Num(-1, 2), Num(3, 2), NaN, PosInfinity, NegInfinity, NotANumber}

\* what performance.eventLoopUtilization is when it is called
Performances ==
  {[is |-> "absent", utilization |-> Undefined], [is |-> "native", utilization |-> Undefined]}
    \cup {[is |-> "patched", utilization |-> v] : v \in PatchedReadings}

MemoryFields == {"rss", "heapTotal", "heapUsed", "external"}

\* a call that raised the error msg
Threw(msg) == [threw |-> msg]

HasThrown(v) == "threw" \in DOMAIN v

\* a reading the handler did not take
NotRead == [notRead |-> TRUE]

None == [none |-> TRUE]

(***************************************************************************)
(* State.                                                                  *)
(***************************************************************************)
VARIABLES
  phase,                    \* "unregistered", "ready", "failed" (the plugin function threw), "closed"
  config,                   \* the merged configuration, Null before registration
  hasEventLoopUtilization,  \* the capability test made at registration
  eventLoopUtilization,     \* the baseline [idle, active], or Null
  histogram,                \* the event-loop-delay histogram and the calls made on it
  router,                   \* the routes of the host: a set of [method, url, handler]
  onCloseHooks,             \* the number of onClose hooks the plugin has added
  doneCalls,                \* for each done() of the onClose hook, whether the histogram
                            \* was enabled when it was called
  loop,                     \* the cumulative [idle, active] time of the event loop
  last,                     \* the last request, the readings it took and its response
  peer                      \* a second server instance of the same process: a record of
                            \* its phase, config, ..., doneCalls

vars == <<phase, config, hasEventLoopUtilization, eventLoopUtilization, histogram,
          router, onCloseHooks, doneCalls, loop, last, peer>>

plugin == <<phase, config, hasEventLoopUtilization, eventLoopUtilization, histogram,
            router, onCloseHooks, doneCalls>>

\* a server instance on which nothing is registered
NewServer ==
  [phase |-> "unregistered",
   config |-> Null,
   hasEventLoopUtilization |-> FALSE,
   eventLoopUtilization |-> Null,
   histogram |-> [created |-> 0, enabled |-> FALSE, enableCalls |-> 0, disableCalls |-> 0],
   router |-> {},
   onCloseHooks |-> 0,
   doneCalls |-> <<>>]

\* the first server instance, as a record
Server ==
  [phase |-> phase,
   config |-> config,
   hasEventLoopUtilization |-> hasEventLoopUtilization,
   eventLoopUtilization |-> eventLoopUtilization,
   histogram |-> histogram,
   router |-> router,
   onCloseHooks |-> onCloseHooks,
   doneCalls |-> doneCalls]

Init ==
  /\ phase = "unregistered"
  /\ config = Null
  /\ hasEventLoopUtilization = FALSE
  /\ eventLoopUtilization = Null
  /\ histogram = [created |-> 0, enabled |-> FALSE, enableCalls |-> 0, disableCalls |-> 0]
  /\ router = {}
  /\ onCloseHooks = 0
  /\ doneCalls = <<>>
  /\ loop = [idle |-> 0, active |-> 0]
  /\ last = None
  /\ peer = NewServer

(***************************************************************************)
(* The runtime.                                                            *)
(***************************************************************************)
\* performance.eventLoopUtilization(), with no baseline: the cumulative times
EventLoopUtilizationNow == [idle |-> loop.idle, active |-> loop.active]

\* performance.eventLoopUtilization(util1): the times since util1
EventLoopUtilizationSince(util1, performance) ==
  LET idle == loop.idle - util1.idle
      active == loop.active - util1.active
  IN  CASE performance.is = "native" ->
             [idle |-> idle, active |-> active, utilization |-> JsDivide(active, idle + active)]
        [] performance.is = "patched" ->
             [idle |-> idle, active |-> active, utilization |-> performance.utilization]
        [] OTHER -> Threw("performance.eventLoopUtilization is not a function")

\* the utilization of a reading is the one the runtime computes from its times
NativeReading(e) == e.utilization = JsDivide(e.active, e.idle + e.active)

(***************************************************************************)
(* The plugin's helpers.                                                   *)
(***************************************************************************)
\* formatMB cutting the megabytes to two decimals instead of rounding them
formatMBTruncated(bytes) ==
  LET h == (bytes \div 1048576) * 100 + ((bytes % 1048576) * 100) \div 1048576
  IN  NatToChars(h \div 100) \o <<".", DigitChar((h % 100) \div 10), DigitChar(h % 10)>>
        \o <<" ", "M", "B">>

formatMB(bytes) == ToFixed2(bytes, 1048576) \o <<" ", "M", "B">>

\* formatMemoryValue with megabytes of 1,000,000 bytes
formatMemoryValueDecimalMB(value) ==
  IF config.metricsInMB THEN ToFixed2(value, 1000000) \o <<" ", "M", "B">>
  ELSE IntToString(value)

formatMemoryValue(value) ==
  IF config.metricsInMB THEN formatMB(value) ELSE IntToString(value)

sanitizeNumber(value) ==
  IF TypeOf(value) # "number" \/ NumberIsNaN(value) \/ ~NumberIsFinite(value)
  THEN Num(0, 1)
  ELSE value

\* whether getEventLoopUtilization calls performance.eventLoopUtilization
ReadsEventLoopUtilization == hasEventLoopUtilization /\ eventLoopUtilization # Null

\* getEventLoopUtilization formatting the reading before it is sanitized
getEventLoopUtilizationRawPercentage(current) ==
  IF ~hasEventLoopUtilization \/ eventLoopUtilization = Null
  THEN Null
  ELSE IF HasThrown(current) THEN current
  ELSE [raw |-> sanitizeNumber(current.utilization),
        percentage |-> TimesHundredToFixed2(current.utilization) \o <<"%">>]

\* getEventLoopUtilization answering null to a reading that is not a number,
\* so that what a request reports depends on the runtime at that time
getEventLoopUtilizationNullReading(current) ==
  IF ~hasEventLoopUtilization \/ eventLoopUtilization = Null
  THEN Null
  ELSE IF HasThrown(current) THEN current
  ELSE IF TypeOf(current.utilization) # "number" THEN Null
  ELSE LET utilization == sanitizeNumber(current.utilization)
       IN  [raw |-> utilization,
            percentage |-> TimesHundredToFixed2(utilization) \o <<"%">>]

\* getEventLoopUtilization reporting the idle share of the time since the baseline
getEventLoopUtilizationIdleShare(current) ==
  IF ~hasEventLoopUtilization \/ eventLoopUtilization = Null
  THEN Null
  ELSE IF HasThrown(current) THEN current
  ELSE LET utilization == sanitizeNumber(JsDivide(current.idle, current.idle + current.active))
       IN  [raw |-> utilization,
            percentage |-> TimesHundredToFixed2(utilization) \o <<"%">>]

\* getEventLoopUtilization measuring from the previous reading of the route
\* instead of from the baseline of the registration
getEventLoopUtilizationSinceLastCall(current) ==
  IF ~hasEventLoopUtilization THEN Null
  ELSE IF HasThrown(current) THEN current
  ELSE LET since == IF /\ last # None
                       /\ last.readings.elu # NotRead
                       /\ ~HasThrown(last.readings.elu)
                    THEN last.readings.elu
                    ELSE [idle |-> 0, active |-> 0]
           idle == current.idle - since.idle
           active == current.active - since.active
           utilization == sanitizeNumber(JsDivide(active, idle + active))
       IN  [raw |-> utilization,
            percentage |-> TimesHundredToFixed2(utilization) \o <<"%">>]

\* current is what performance.eventLoopUtilization(eventLoopUtilization) returned
getEventLoopUtilization(current) ==
  IF ~hasEventLoopUtilization \/ eventLoopUtilization = Null
  THEN Null
  ELSE IF HasThrown(current) THEN current
  ELSE LET utilization == sanitizeNumber(current.utilization)
       IN  [raw |-> utilization,
            percentage |-> TimesHundredToFixed2(utilization) \o <<"%">>]

(***************************************************************************)
(* The route handlers.  rd holds the readings of one request:              *)
(* rd.memoryUsage is what process.memoryUsage() returned or threw, rd.elu  *)
(* what performance.eventLoopUtilization(baseline) returned or threw,      *)
(* rd.uptime is process.uptime() in milliseconds and rd.now the clock.     *)
(* A reading the handler did not take is NotRead.                          *)
(***************************************************************************)
\* the reply of the host's default error handler to an error a handler threw
ErrorReply(err) ==
  [status |-> 500,
   body |-> [statusCode |-> 500, error |-> "Internal Server Error", message |-> err.threw]]

\* the reply of the host to a request no route matches
NotFoundReply ==
  [status |-> 404,
   body |-> [statusCode |-> 404, error |-> "Not Found", message |-> "Route not found"]]

\* Math.floor(process.uptime())
UptimeSeconds(rd) == rd.uptime \div 1000

\* the uptime handler rounding the uptime to the nearest second
UptimeHandlerRounds(rd) ==
  [status |-> 200, body |-> [uptime |-> (rd.uptime + 500) \div 1000]]

UptimeHandler(rd) ==
  [status |-> 200, body |-> [uptime |-> UptimeSeconds(rd)]]

\* the metrics handler catching the memory-usage error and answering zeros
MetricsHandlerCatches(rd) ==
  LET memoryUsage == IF HasThrown(rd.memoryUsage)
                     THEN [rss |-> 0, heapTotal |-> 0, heapUsed |-> 0, external |-> 0]
                     ELSE rd.memoryUsage
      elu == IF HasThrown(rd.memoryUsage) THEN Null ELSE getEventLoopUtilization(rd.elu)
  IN  IF HasThrown(elu) THEN ErrorReply(elu)
      ELSE [status |-> 200,
            body |-> [memory |-> [rss |-> formatMemoryValue(memoryUsage.rss),
                                  heapTotal |-> formatMemoryValue(memoryUsage.heapTotal),
                                  heapUsed |-> formatMemoryValue(memoryUsage.heapUsed),
                                  external |-> formatMemoryValue(memoryUsage.external)],
                      elu |-> elu,
                      timestamp |-> <<>>]]

MetricsHandler(rd) ==
  IF HasThrown(rd.memoryUsage) THEN ErrorReply(rd.memoryUsage)
  ELSE LET memoryUsage == rd.memoryUsage
           elu == getEventLoopUtilization(rd.elu)
       IN  IF HasThrown(elu) THEN ErrorReply(elu)
           ELSE [status |-> 200,
                 body |-> [memory |-> [rss |-> formatMemoryValue(memoryUsage.rss),
                                       heapTotal |-> formatMemoryValue(memoryUsage.heapTotal),
                                       heapUsed |-> formatMemoryValue(memoryUsage.heapUsed),
                                       external |-> formatMemoryValue(memoryUsage.external)],
                           elu |-> elu,
                           timestamp |-> ToISOString(rd.now)]]

\* the stats handler reporting the uptime rounded up
StatsHandlerCeilUptime(rd) ==
  IF HasThrown(rd.memoryUsage) THEN ErrorReply(rd.memoryUsage)
  ELSE LET memoryUsage == rd.memoryUsage
           elu == getEventLoopUtilization(rd.elu)
       IN  IF HasThrown(elu) THEN ErrorReply(elu)
           ELSE [status |-> 200,
                 body |-> [uptime |-> (rd.uptime + 999) \div 1000,
                           memory |-> [rss |-> formatMemoryValue(memoryUsage.rss),
                                       heapTotal |-> formatMemoryValue(memoryUsage.heapTotal),
                                       heapUsed |-> formatMemoryValue(memoryUsage.heapUsed),
                                       external |-> formatMemoryValue(memoryUsage.external)],
                           elu |-> elu,
                           timestamp |-> ToISOString(rd.now)]]

StatsHandler(rd) ==
  IF HasThrown(rd.memoryUsage) THEN ErrorReply(rd.memoryUsage)
  ELSE LET memoryUsage == rd.memoryUsage
           elu == getEventLoopUtilization(rd.elu)
       IN  IF HasThrown(elu) THEN ErrorReply(elu)
           ELSE [status |-> 200,
                 body |-> [uptime |-> UptimeSeconds(rd),
                           memory |-> [rss |-> formatMemoryValue(memoryUsage.rss),
                                       heapTotal |-> formatMemoryValue(memoryUsage.heapTotal),
                                       heapUsed |-> formatMemoryValue(memoryUsage.heapUsed),
                                       external |-> formatMemoryValue(memoryUsage.external)],
                           elu |-> elu,
                           timestamp |-> ToISOString(rd.now)]]

\* a dispatch that keeps answering the error of the previous request on the
\* routes that read the memory usage
HandleRetainsError(handler, rd) ==
  CASE handler = "uptime" -> UptimeHandler(rd)
    [] handler = "metrics" ->
         IF last # None /\ last.status = 500 THEN ErrorReply(Threw("Memory usage error"))
         ELSE MetricsHandler(rd)
    [] handler = "stats" ->
         IF last # None /\ last.status = 500 THEN ErrorReply(Threw("Memory usage error"))
         ELSE StatsHandler(rd)

Handle(handler, rd) ==
  CASE handler = "uptime"  -> UptimeHandler(rd)
    [] handler = "metrics" -> MetricsHandler(rd)
    [] handler = "stats"   -> StatsHandler(rd)

\* the readings a handler can take, in the order it takes them: a handler that
\* throws takes none after the call that threw
NoReadings == [memoryUsage |-> NotRead, elu |-> NotRead, uptime |-> NotRead, now |-> NotRead]

EluReadings ==
  IF ReadsEventLoopUtilization
  THEN {EventLoopUtilizationSince(eventLoopUtilization, p) : p \in Performances}
  ELSE {NotRead}

ReadingsOf(handler) ==
  CASE handler = "uptime" ->
         {[NoReadings EXCEPT !.uptime = s.uptime] : s \in Snapshots}
    [] handler \in {"metrics", "stats"} ->
         {[NoReadings EXCEPT !.memoryUsage = Threw("Memory usage error")]}
           \cup {[memoryUsage |-> s.mem,
                  elu |-> e,
                  uptime |-> IF handler = "stats" /\ ~HasThrown(e) THEN s.uptime ELSE NotRead,
                  now |-> IF HasThrown(e) THEN NotRead ELSE s.now]
                 : s \in Snapshots, e \in EluReadings}
    [] OTHER -> {NoReadings}

(***************************************************************************)
(* The host's router.                                                      *)
(***************************************************************************)
Declared(routes, method, url) == \E r \in routes : r.method = method /\ r.url = url

\* fastify.route(): the routes with the new one, or Threw when the method is
\* already declared for the url
Route(routes, method, url, handler) ==
  IF Declared(routes, method, url)
  THEN Threw("FST_ERR_DUPLICATED_ROUTE")
  ELSE [routes |-> routes \cup {[method |-> method, url |-> url, handler |-> handler]}]

\* the handler the router finds for a request, "" when no route matches
Lookup(method, path) ==
  LET matches == {r \in router : r.method = method /\ r.url = path}
  IN  IF matches = {} THEN "" ELSE (CHOOSE r \in matches : TRUE).handler

\* the first route declared at the default path whatever the options
uptimeUrlDefault(cfg) == Defaults.uptimeRoute

\* the url of the first route declaration
uptimeUrl(cfg) == cfg.uptimeRoute

\* the url of the second route declaration
metricsUrl(cfg) == cfg.metricsRoute

(***************************************************************************)
(* Actions.                                                                *)
(***************************************************************************)
\* the plugin function run with options on the server instance s; exposed is
\* whether performance.eventLoopUtilization is a function at that time.  The
\* function throws at the first route the host rejects, before it adds the
\* onClose hook.
Registered(options, exposed, s) ==
  LET cfg == options @@ Defaults
      r1 == Route(s.router, "GET", uptimeUrl(cfg), "uptime")
      r2 == Route(r1.routes, "GET", metricsUrl(cfg), "metrics")
      r3 == Route(r2.routes, "GET", "/stats", "stats")
      threw == HasThrown(r1) \/ HasThrown(r2) \/ HasThrown(r3)
  IN  [phase |-> IF threw THEN "failed" ELSE "ready",
       config |-> cfg,
       hasEventLoopUtilization |-> exposed,
       eventLoopUtilization |-> IF exposed THEN EventLoopUtilizationNow ELSE Null,
       histogram |-> [s.histogram EXCEPT !.created = @ + 1, !.enabled = TRUE,
                                         !.enableCalls = @ + 1],
       router |-> IF HasThrown(r1) THEN s.router
                  ELSE IF HasThrown(r2) THEN r1.routes
                  ELSE IF HasThrown(r3) THEN r2.routes
                  ELSE r3.routes,
       onCloseHooks |-> IF threw THEN s.onCloseHooks ELSE s.onCloseHooks + 1,
       doneCalls |-> s.doneCalls]

\* fastify.register(fastifyStatistics, options) on the first server
Register(options, exposed) ==
  LET s == Registered(options, exposed, Server)
  IN  /\ phase = "unregistered"
      /\ phase' = s.phase
      /\ config' = s.config
      /\ hasEventLoopUtilization' = s.hasEventLoopUtilization
      /\ eventLoopUtilization' = s.eventLoopUtilization
      /\ histogram' = s.histogram
      /\ router' = s.router
      /\ onCloseHooks' = s.onCloseHooks
      /\ UNCHANGED <<doneCalls, loop, last, peer>>

\* a request that also moves the baseline to the time of the request
RequestRebaselines(method, path, rd) ==
  LET handler == Lookup(method, path)
      reply == IF handler = "" THEN NotFoundReply ELSE Handle(handler, rd)
  IN  /\ phase = "ready"
      /\ last' = [method |-> method, path |-> path, readings |-> rd] @@ reply
      /\ eventLoopUtilization' =
           IF hasEventLoopUtilization THEN EventLoopUtilizationNow ELSE eventLoopUtilization
      /\ UNCHANGED <<phase, config, hasEventLoopUtilization, histogram, router,
                     onCloseHooks, doneCalls, loop, peer>>

\* one request served by the host: the route is looked up, its handler takes
\* the readings rd and the host sends the reply
Request(method, path, rd) ==
  LET handler == Lookup(method, path)
      reply == IF handler = "" THEN NotFoundReply ELSE Handle(handler, rd)
  IN  /\ phase = "ready"
      /\ last' = [method |-> method, path |-> path, readings |-> rd] @@ reply
      /\ UNCHANGED <<plugin, loop, peer>>

\* the onClose hook calling done() before it disables the histogram
onCloseDoneFirst(h) ==
  [histogram |-> [h EXCEPT !.enabled = FALSE, !.disableCalls = @ + 1],
   done |-> h.enabled]

\* the onClose hook on the histogram h: disable(), then done(); done is
\* whether the histogram was enabled when done() was called
onClose(h) ==
  LET disabled == [h EXCEPT !.enabled = FALSE, !.disableCalls = @ + 1]
  IN  [histogram |-> disabled, done |-> disabled.enabled]

\* the server instance s after fastify.close(): the host runs the onClose
\* hook when the plugin has added it
Closed(s) ==
  IF s.onCloseHooks > 0
  THEN [s EXCEPT !.phase = "closed",
                 !.histogram = onClose(s.histogram).histogram,
                 !.doneCalls = Append(@, onClose(s.histogram).done)]
  ELSE [s EXCEPT !.phase = "closed"]

\* fastify.close() on the first server
Close ==
  /\ phase \in {"ready", "failed"}
  /\ phase' = Closed(Server).phase
  /\ histogram' = Closed(Server).histogram
  /\ doneCalls' = Closed(Server).doneCalls
  /\ UNCHANGED <<config, hasEventLoopUtilization, eventLoopUtilization, router,
                 onCloseHooks, loop, last, peer>>

\* the event loop spends one unit of time running callbacks
Busy ==
  /\ phase # "closed"
  /\ loop.idle + loop.active < MaxTicks
  /\ loop' = [loop EXCEPT !.active = @ + 1]
  /\ UNCHANGED <<plugin, last, peer>>

\* the event loop spends one unit of time waiting
Idle ==
  /\ phase # "closed"
  /\ loop.idle + loop.active < MaxTicks
  /\ loop' = [loop EXCEPT !.idle = @ + 1]
  /\ UNCHANGED <<plugin, last, peer>>

Next ==
  \/ \E options \in Options, exposed \in BOOLEAN : Register(options, exposed)
  \/ \E method \in Methods, path \in Paths :
       \E rd \in ReadingsOf(Lookup(method, path)) : Request(method, path, rd)
  \/ Close
  \/ Busy
  \/ Idle

Spec == Init /\ [][Next]_vars

TypeOK ==
  /\ phase \in {"unregistered", "ready", "failed", "closed"}
  /\ histogram.created \in 0..1
  /\ Len(doneCalls) <= 1
  /\ peer.phase \in {"unregistered", "ready", "failed", "closed"}
  /\ loop.idle + loop.active <= MaxTicks

(***************************************************************************)
(* Two server instances of one process, each registering the plugin.  The  *)
(* plugin function declares the baseline and the histogram as locals, so   *)
(* each run of it has its own; the event loop is the process's.            *)
(***************************************************************************)
\* fastify.register(fastifyStatistics, options) on the second server
PeerRegister(options, exposed) ==
  /\ peer.phase = "unregistered"
  /\ peer' = Registered(options, exposed, peer)
  /\ UNCHANGED <<plugin, loop, last>>

\* a close of the second server whose hook disables a histogram that the two
\* registrations share
PeerCloseSharedHistogram ==
  /\ peer.phase \in {"ready", "failed"}
  /\ peer' = Closed(peer)
  /\ histogram' = IF peer.onCloseHooks > 0 THEN peer'.histogram ELSE histogram
  /\ UNCHANGED <<phase, config, hasEventLoopUtilization, eventLoopUtilization, router,
                 onCloseHooks, doneCalls, loop, last>>

\* fastify.close() on the second server
PeerClose ==
  /\ peer.phase \in {"ready", "failed"}
  /\ peer' = Closed(peer)
  /\ UNCHANGED <<plugin, loop, last>>

\* the options of the runs with two servers: the routes at their defaults, a
\* custom uptime route, and an uptime route that collides with /stats
TwoServerOptions == {o \in Options : DOMAIN o \subseteq {"uptimeRoute"}}

\* the readings of the runs with two servers: those of the runtime's own
\* performance API, at the first moment of the process
TwoServerReadings(handler) ==
  {rd \in ReadingsOf(handler) :
     /\ rd.now = NotRead \/ rd.now.day = 20761
     /\ rd.elu = NotRead \/ (~HasThrown(rd.elu) /\ NativeReading(rd.elu))}

NextTwo ==
  \/ \E options \in TwoServerOptions : Register(options, TRUE)
  \/ \E path \in Paths :
       \E rd \in TwoServerReadings(Lookup("GET", path)) : Request("GET", path, rd)
  \/ Close
  \/ Busy
  \/ Idle
  \/ \E options \in TwoServerOptions, exposed \in BOOLEAN : PeerRegister(options, exposed)
  \/ PeerClose

SpecTwo == Init /\ [][NextTwo]_vars

(***************************************************************************)
(* Properties.                                                             *)
(***************************************************************************)
\* the handler that served the last request, "" when there is none
LastHandler == IF last = None THEN "" ELSE Lookup(last.method, last.path)

\* the last request was answered 200 by the metrics or the stats handler
LastIsMetrics200 == LastHandler \in {"metrics", "stats"} /\ last.status = 200

SuccessFields == {"memory", "elu", "timestamp", "uptime"}

\* C1: whenever process.memoryUsage() raises an error during a request to the
\* metrics route or to /stats, the answer is HTTP 500 and carries none of the
\* fields of a success body; no value is substituted for the failed reading.
C1_MemoryFailureIs500 ==
  (last # None /\ HasThrown(last.readings.memoryUsage)) =>
    /\ LastHandler \in {"metrics", "stats"}
    /\ last.status = 500
    /\ DOMAIN last.body \cap SuccessFields = {}
    /\ last.readings.elu = NotRead /\ last.readings.now = NotRead
    /\ last.readings.uptime = NotRead

C1_Witness ==
  /\ LastHandler = "stats"
  /\ HasThrown(last.readings.memoryUsage)
  /\ last.status = 500

\* the (method, path) pairs of the three routes of the configuration
PluginRoutes ==
  {<<"GET", config.uptimeRoute>>, <<"GET", config.metricsRoute>>, <<"GET", "/stats">>}

C3_HistogramLifecycle ==
  /\ histogram.created <= 1 /\ histogram.enableCalls <= 1 /\ histogram.disableCalls <= 1
  /\ phase = "unregistered" => histogram.created = 0 /\ histogram.enableCalls = 0
  /\ phase # "unregistered" => histogram.created = 1 /\ histogram.enableCalls = 1
  /\ phase \in {"ready", "failed"} => histogram.enabled /\ histogram.disableCalls = 0
  /\ phase = "closed" => ~histogram.enabled /\ histogram.disableCalls = 1

\* x is a finite number in the closed range [0, 1]
InUnitRange(x) == x.kind = "number" /\ 0 <= x.n /\ x.n <= x.d

\* C4: in every 200 response of the metrics route and of /stats where elu is
\* not null, elu.raw lies in [0, 1], whatever the runtime returned as the
\* utilization reading.
C4_RawInUnitRange ==
  (LastIsMetrics200 /\ last.body.elu # Null) => InUnitRange(last.body.elu.raw)

\* C5: in every response where elu is not null, elu.percentage is
\* (elu.raw * 100) formatted to two decimal places followed by "%", computed
\* from the very value returned as elu.raw.
C5_PercentageFromRaw ==
  (LastIsMetrics200 /\ last.body.elu # Null) =>
    LET elu == last.body.elu
        digits == DropSuffix(elu.percentage, <<"%">>)
    IN  /\ elu.percentage = TimesHundredToFixed2(elu.raw) \o <<"%">>
        /\ EndsWith(elu.percentage, <<"%">>)
        /\ IsDecimal(digits)
        /\ Len(digits) >= 4 /\ digits[Len(digits) - 2] = "."
        /\ Abs(ParseFloat(digits).n) = Hundredths(Abs(elu.raw.n * 100), elu.raw.d)

\* a reading that sanitizing changes has been formatted
C5_Witness ==
  /\ LastIsMetrics200
  /\ last.body.elu # Null
  /\ last.readings.elu.utilization = NaN
  /\ last.body.elu.percentage = <<"0", ".", "0", "0", "%">>

MBSuffix == <<" ", "M", "B">>

\* C6 as stated: with metricsInMB the four memory fields end with " MB" and
\* their numeric prefix parses as a strictly positive number, for every byte
\* count the runtime reports.
C6_MBStrictlyPositive ==
  (LastIsMetrics200 /\ config.metricsInMB) =>
    \A f \in MemoryFields :
      /\ EndsWith(last.body.memory[f], MBSuffix)
      /\ IsDecimal(DropSuffix(last.body.memory[f], MBSuffix))
      /\ ParseFloat(DropSuffix(last.body.memory[f], MBSuffix)).n > 0

\* C6 amended: with metricsInMB the four memory fields end with " MB" and
\* their numeric prefix parses as a non-negative number, strictly positive
\* exactly when the byte count is at least 0.005 MB (5243 bytes); a smaller
\* count, 0 included, is rendered "0.00 MB".
C6_MBNonNegative ==
  (LastIsMetrics200 /\ config.metricsInMB) =>
    \A f \in MemoryFields :
      LET bytes == last.readings.memoryUsage[f]
          field == last.body.memory[f]
          parsed == ParseFloat(DropSuffix(field, MBSuffix))
      IN  /\ EndsWith(field, MBSuffix)
          /\ IsDecimal(DropSuffix(field, MBSuffix))
          /\ parsed.n >= 0
          /\ (parsed.n > 0) <=> (bytes >= (1048576 + 199) \div 200)
          /\ (parsed.n = 0) => (field = <<"0", ".", "0", "0", " ", "M", "B">>)

C6_Witness ==
  /\ LastIsMetrics200
  /\ config.metricsInMB
  /\ last.readings.memoryUsage.external = 0
  /\ last.body.memory.external = <<"0", ".", "0", "0", " ", "M", "B">>
  /\ last.body.memory.heapTotal = <<"0", ".", "0", "1", " ", "M", "B">>

\* C7: the rendering chosen at registration applies to all four memory
\* fields of both routes: without metricsInMB each field is the base-10
\* integer string of the byte count; with it, each field is the byte count
\* divided by 1,048,576, rounded to two decimals, followed by " MB".
C7_UniformRendering ==
  LastIsMetrics200 =>
    \A f \in MemoryFields :
      LET bytes == last.readings.memoryUsage[f]
          field == last.body.memory[f]
          digits == DropSuffix(field, MBSuffix)
      IN  IF config.metricsInMB
          THEN /\ EndsWith(field, MBSuffix)
               /\ IsDecimal(digits)
               /\ Len(digits) >= 4 /\ digits[Len(digits) - 2] = "."
               /\ ParseFloat(digits) = Num(Hundredths(bytes, 1048576), 100)
          ELSE /\ ~EndsWith(field, MBSuffix)
               /\ IsDecimal(field)
               /\ \A i \in 1..Len(field) : IsDigit(field[i])
               /\ ParseFloat(field) = Num(bytes, 1)

C7_Witness ==
  /\ LastHandler = "stats"
  /\ last.status = 200
  /\ config.metricsInMB
  /\ last.body.memory.rss = <<"4", "5", ".", "0", "0", " ", "M", "B">>
  /\ last.body.memory.heapUsed = <<"4", ".", "5", "0", " ", "M", "B">>

C9_StatsIsMetricsPlusUptime ==
  LastHandler = "stats" =>
    LET metrics == MetricsHandler(last.readings)
    IN  /\ last.status = metrics.status
        /\ last.status = 200 =>
             /\ DOMAIN last.body = DOMAIN metrics.body \cup {"uptime"}
             /\ "uptime" \notin DOMAIN metrics.body
             /\ \A f \in DOMAIN metrics.body : last.body[f] = metrics.body[f]
             /\ last.body.uptime = UptimeHandler(last.readings).body.uptime
        /\ last.status # 200 => last.body = metrics.body

C9_Witness ==
  /\ LastHandler = "stats"
  /\ last.status = 200
  /\ last.readings.uptime = 61999
  /\ last.body.uptime = 61

\* the response r is a 200 of the metrics route with a native elu reading
NativeMetrics200(r) ==
  /\ r # None
  /\ Lookup(r.method, r.path) = "metrics"
  /\ r.status = 200
  /\ r.body.elu # Null
  /\ NativeReading(r.readings.elu)

\* C10: over consecutive calls of the metrics route between which the event
\* loop accumulates only active time and no idle time, elu.raw never decreases.
C10_RawNonDecreasingUnderLoad ==
  [][(/\ NativeMetrics200(last)
      /\ NativeMetrics200(last')
      /\ last'.readings.elu.idle = last.readings.elu.idle
      /\ last'.readings.elu.active >= last.readings.elu.active)
     => NumLeq(last.body.elu.raw, last'.body.elu.raw)]_vars

\* a call of the metrics route was made after idle time only, and the event
\* loop has been busy since
C10_Witness ==
  /\ NativeMetrics200(last)
  /\ last.readings.elu.idle >= 1
  /\ last.readings.elu.active = 0
  /\ loop.idle = eventLoopUtilization.idle + last.readings.elu.idle
  /\ loop.active > eventLoopUtilization.active + last.readings.elu.active

\* C11: for every configuration and every process-uptime reading, GET
\* uptimeRoute answers 200 with uptime the floor of the reading in seconds, a
\* non-negative integer; the handler queries neither the memory usage nor the
\* event-loop utilization.
C11_UptimeIsFloor ==
  LastHandler = "uptime" =>
    /\ last.status = 200
    /\ DOMAIN last.body = {"uptime"}
    /\ last.body.uptime \in Nat
    /\ last.body.uptime * 1000 <= last.readings.uptime
    /\ last.readings.uptime < (last.body.uptime + 1) * 1000
    /\ last.readings.memoryUsage = NotRead
    /\ last.readings.elu = NotRead
    /\ last.readings.now = NotRead

\* an uptime that is not a whole number of seconds, on a custom route
C11_Witness ==
  /\ LastHandler = "uptime"
  /\ last.path = "/api/uptime"
  /\ last.readings.uptime = 61999
  /\ last.body.uptime = 61

\* C13: no request changes the shared state of the plugin: over every step
\* between registration and close, the steps that answer a request among
\* them, the ELU baseline, the histogram and its enabled status, the
\* configuration, the routes and the close hooks keep their values; so after
\* any sequence of requests, successful or failing, they are what registration
\* left.
C13_RequestsLeaveSharedState ==
  [][(phase = "ready" /\ phase' = "ready")
     => /\ eventLoopUtilization' = eventLoopUtilization
        /\ hasEventLoopUtilization' = hasEventLoopUtilization
        /\ histogram' = histogram
        /\ config' = config
        /\ router' = router
        /\ onCloseHooks' = onCloseHooks
        /\ doneCalls' = doneCalls]_vars

\* a request failed some time after registration, and the baseline, the
\* histogram and the configuration are those of the registration
C13_Witness ==
  /\ phase = "ready"
  /\ last # None
  /\ last.status = 500
  /\ hasEventLoopUtilization
  /\ loop.idle + loop.active > eventLoopUtilization.idle + eventLoopUtilization.active
  /\ histogram = [created |-> 1, enabled |-> TRUE, enableCalls |-> 1, disableCalls |-> 0]
  /\ config.metricsInMB
  /\ Cardinality(router) = 3

\* the response r is a 200 of the metrics or the stats route with a native
\* elu reading
NativeElu200(r) ==
  /\ r # None
  /\ Lookup(r.method, r.path) \in {"metrics", "stats"}
  /\ r.status = 200
  /\ r.body.elu # Null
  /\ NativeReading(r.readings.elu)

\* the utilization of the time between the baseline and the current counters
UtilizationSinceBaseline ==
  LET idle == loop.idle - eventLoopUtilization.idle
      active == loop.active - eventLoopUtilization.active
  IN  sanitizeNumber(JsDivide(active, idle + active))

\* C14: the elu a request reports is a function of the cumulative event-loop
\* counters at the time of the request and of the baseline captured at
\* registration alone: whatever requests were answered before, the next
\* answer of the metrics or the stats route carries the utilization of the
\* time between the baseline and the current counters.
C14_EluFromCountersAndBaseline ==
  [][(phase = "ready" /\ phase' = "ready" /\ loop' = loop /\ NativeElu200(last'))
     => /\ last'.body.elu.raw = UtilizationSinceBaseline
        /\ last'.body.elu.percentage =
             TimesHundredToFixed2(UtilizationSinceBaseline) \o <<"%">>]_vars

\* an elu reported after both idle and busy time since the registration
C14_Witness ==
  /\ NativeElu200(last)
  /\ last.readings.elu.idle >= 1
  /\ last.readings.elu.active >= 1
  /\ last.body.elu.raw = Num(last.readings.elu.active,
                             last.readings.elu.idle + last.readings.elu.active)

\* a step that answers a request
RequestStep == phase = "ready" /\ phase' = "ready" /\ loop' = loop

\* the memory fields of the body of r are those of the memory reading of r
FreshMemory(r) ==
  \A f \in MemoryFields : r.body.memory[f] = formatMemoryValue(r.readings.memoryUsage[f])

\* C17: a memory-usage failure is confined to the requests that meet it: the
\* request after one that failed on the memory query is answered 200 on the
\* uptime route, and 200 on the metrics route and on /stats as soon as the
\* memory query (and every other reading of the request) succeeds, with the
\* memory values and the timestamp read in that request; nothing of the
\* failure is retained.
C17_MemoryFailureConfined ==
  [][(/\ RequestStep
      /\ last # None
      /\ last.status = 500
      /\ HasThrown(last.readings.memoryUsage))
     => /\ Lookup(last'.method, last'.path) = "uptime" =>
             /\ last'.status = 200
             /\ last'.body.uptime = last'.readings.uptime \div 1000
        /\ (/\ Lookup(last'.method, last'.path) \in {"metrics", "stats"}
            /\ ~HasThrown(last'.readings.memoryUsage)
            /\ ~HasThrown(last'.readings.elu)) =>
             /\ last'.status = 200
             /\ FreshMemory(last')
             /\ last'.body.timestamp = ToISOString(last'.readings.now)
        /\ (/\ Lookup(last'.method, last'.path) \in {"metrics", "stats"}
            /\ HasThrown(last'.readings.memoryUsage)) =>
             last'.status = 500]_vars

\* the metrics route failed on the memory query and the server is still up
C17_Witness ==
  /\ phase = "ready"
  /\ LastHandler = "metrics"
  /\ last.status = 500
  /\ HasThrown(last.readings.memoryUsage)
  /\ last.body.message = "Memory usage error"

\* the plugin function threw while it declared its routes: a histogram was
\* created and no close hook was added
RegistrationFailed == histogram.created > 0 /\ onCloseHooks = 0

\* C16: if the registration fails while its routes are added (the host
\* rejects a duplicate route), then once the server has been closed no
\* histogram of that registration is still enabled: every enable() has been
\* followed by a disable().
C16_FailedRegistrationReleasesHistogram ==
  (phase = "closed" /\ RegistrationFailed) =>
    /\ ~histogram.enabled
    /\ histogram.disableCalls >= histogram.enableCalls

ReadyServes(ph, r, h) ==
  ph = "ready" => Cardinality(r) = 3 /\ h.enabled /\ h.disableCalls = 0

\* over one step: closing the second server changes nothing of the first
\* registration, closing the first nothing of the second, and once the second
\* is closed the first answers its routes as a lone server does
IndependentStep ==
  /\ (peer.phase # "closed" /\ peer'.phase = "closed") =>
       /\ phase' = phase
       /\ histogram' = histogram
       /\ eventLoopUtilization' = eventLoopUtilization
       /\ hasEventLoopUtilization' = hasEventLoopUtilization
       /\ config' = config
       /\ router' = router
       /\ peer'.histogram.disableCalls = peer.histogram.disableCalls + peer.onCloseHooks
       /\ peer'.eventLoopUtilization = peer.eventLoopUtilization
  /\ (phase # "closed" /\ phase' = "closed") =>
       /\ peer' = peer
       /\ histogram'.disableCalls = histogram.disableCalls + onCloseHooks
  /\ (RequestStep /\ peer.phase = "closed" /\ Lookup(last'.method, last'.path) # "") =>
       /\ HasThrown(last'.readings.memoryUsage) \/ last'.status = 200
       /\ NativeElu200(last') => last'.body.elu.raw = UtilizationSinceBaseline

\* C15: when two server instances each register the plugin, each
\* registration has its own histogram and its own ELU baseline: closing one
\* server disables only the histogram of its registration and leaves the
\* histogram, the baseline, the configuration and the routes of the other as
\* they were; a ready server has its three routes and an enabled histogram
\* whatever happened to the other, and keeps answering.
C15_RegistrationsIndependent ==
  /\ [](ReadyServes(phase, router, histogram)
        /\ ReadyServes(peer.phase, peer.router, peer.histogram))
  /\ [][IndependentStep]_vars

\* the second server was registered later than the first and has been closed;
\* the first still has its histogram enabled and has answered /stats
C15_Witness ==
  /\ peer.phase = "closed"
  /\ peer.histogram = [created |-> 1, enabled |-> FALSE, enableCalls |-> 1, disableCalls |-> 1]
  /\ peer.doneCalls = <<FALSE>>
  /\ phase = "ready"
  /\ histogram = [created |-> 1, enabled |-> TRUE, enableCalls |-> 1, disableCalls |-> 0]
  /\ peer.hasEventLoopUtilization
  /\ peer.eventLoopUtilization # eventLoopUtilization
  /\ LastHandler = "stats"
  /\ last.status = 200

====
